---- MODULE Spec2Model ----
(***************************************************************************)
(* The ICS26 routing module of ibc-rs: the envelope decoder                *)
(* (TryFrom<Any> for MsgEnvelope), the validate and execute dispatchers    *)
(* over MsgEnvelope, and the ledger context they read and write.           *)
(*                                                                         *)
(* Identifiers are 1-based indices into the context's registries: client   *)
(* n is the n-th created client, connection n the n-th created            *)
(* connection, channel n the n-th created channel.                         *)
(***************************************************************************)
EXTENDS Integers, Sequences, FiniteSets, TLC

\* ------------------------------------------------------------------ bounds
MaxClient == 1
MaxHeight == 2
MaxConn == 1
MaxChan == 1
MaxSeq == 1

\* --------------------------------------------------------------- wire tags
\* The TYPE_URL constant of each message module imported by msgs.rs.
TYPE_URL ==
  [ create_client     |-> "/ibc.core.client.v1.MsgCreateClient",
    update_client     |-> "/ibc.core.client.v1.MsgUpdateClient",
    upgrade_client    |-> "/ibc.core.client.v1.MsgUpgradeClient",
    conn_open_init    |-> "/ibc.core.connection.v1.MsgConnectionOpenInit",
    conn_open_try     |-> "/ibc.core.connection.v1.MsgConnectionOpenTry",
    conn_open_ack     |-> "/ibc.core.connection.v1.MsgConnectionOpenAck",
    conn_open_confirm |-> "/ibc.core.connection.v1.MsgConnectionOpenConfirm",
    chan_open_init    |-> "/ibc.core.channel.v1.MsgChannelOpenInit",
    chan_open_try     |-> "/ibc.core.channel.v1.MsgChannelOpenTry",
    chan_open_ack     |-> "/ibc.core.channel.v1.MsgChannelOpenAck",
    chan_open_confirm |-> "/ibc.core.channel.v1.MsgChannelOpenConfirm",
    chan_close_init   |-> "/ibc.core.channel.v1.MsgChannelCloseInit",
    chan_close_confirm |-> "/ibc.core.channel.v1.MsgChannelCloseConfirm",
    recv_packet       |-> "/ibc.core.channel.v1.MsgRecvPacket",
    acknowledgement   |-> "/ibc.core.channel.v1.MsgAcknowledgement",
    timeout           |-> "/ibc.core.channel.v1.MsgTimeout",
    timeout_on_close  |-> "/ibc.core.channel.v1.MsgTimeoutOnClose" ]

\* The message modules whose TYPE_URL the decoder knows.
MsgModules == DOMAIN TYPE_URL

KnownUrls == { TYPE_URL[m] : m \in MsgModules }

\* Tags no message module declares.
UnknownUrls == { "foo.bar.Msg", "/ibc.core.client.v1.MsgSubmitMisbehaviour" }

\* ------------------------------------------------------------ the envelope
\* enum MsgEnvelope and the sub-enums it wraps: every constructor that
\* validate and execute dispatch on.
Constructors ==
  { <<"Client", "CreateClient">>, <<"Client", "UpdateClient">>,
    <<"Client", "Misbehaviour">>, <<"Client", "UpgradeClient">>,
    <<"Connection", "OpenInit">>, <<"Connection", "OpenTry">>,
    <<"Connection", "OpenAck">>, <<"Connection", "OpenConfirm">>,
    <<"Channel", "OpenInit">>, <<"Channel", "OpenTry">>,
    <<"Channel", "OpenAck">>, <<"Channel", "OpenConfirm">>,
    <<"Channel", "CloseInit">>, <<"Channel", "CloseConfirm">>,
    <<"Packet", "Recv">>, <<"Packet", "Ack">>,
    <<"Packet", "Timeout">>, <<"Packet", "TimeoutOnClose">> }

\* The match without its last arm.
ArmsWithoutLast ==
  << [m |-> "create_client",      family |-> "Client",     variant |-> "CreateClient"],
     [m |-> "update_client",      family |-> "Client",     variant |-> "UpdateClient"],
     [m |-> "upgrade_client",     family |-> "Client",     variant |-> "UpgradeClient"],
     [m |-> "conn_open_init",     family |-> "Connection", variant |-> "OpenInit"],
     [m |-> "conn_open_try",      family |-> "Connection", variant |-> "OpenTry"],
     [m |-> "conn_open_ack",      family |-> "Connection", variant |-> "OpenAck"],
     [m |-> "conn_open_confirm",  family |-> "Connection", variant |-> "OpenConfirm"],
     [m |-> "chan_open_init",     family |-> "Channel",    variant |-> "OpenInit"],
     [m |-> "chan_open_try",      family |-> "Channel",    variant |-> "OpenTry"],
     [m |-> "chan_open_ack",      family |-> "Channel",    variant |-> "OpenAck"],
     [m |-> "chan_open_confirm",  family |-> "Channel",    variant |-> "OpenConfirm"],
     [m |-> "chan_close_init",    family |-> "Channel",    variant |-> "CloseInit"],
     [m |-> "chan_close_confirm", family |-> "Channel",    variant |-> "CloseConfirm"],
     [m |-> "recv_packet",        family |-> "Packet",     variant |-> "Recv"],
     [m |-> "acknowledgement",    family |-> "Packet",     variant |-> "Ack"],
     [m |-> "timeout",            family |-> "Packet",     variant |-> "Timeout"] >>

\* The match with the acknowledgement arm wrapping its message as a
\* channel handshake message.
ArmsMisfiled ==
  [ArmsWithoutLast EXCEPT ![15] = [m |-> "acknowledgement", family |-> "Channel",
                                   variant |-> "OpenAck"]]
  \o << [m |-> "timeout_on_close", family |-> "Packet", variant |-> "TimeoutOnClose"] >>

\* The arms of try_from's match, in source order: the module whose TYPE_URL
\* the arm matches, and the constructor the arm wraps the message in.
Arms ==
  << [m |-> "create_client",      family |-> "Client",     variant |-> "CreateClient"],
     [m |-> "update_client",      family |-> "Client",     variant |-> "UpdateClient"],
     [m |-> "upgrade_client",     family |-> "Client",     variant |-> "UpgradeClient"],
     [m |-> "conn_open_init",     family |-> "Connection", variant |-> "OpenInit"],
     [m |-> "conn_open_try",      family |-> "Connection", variant |-> "OpenTry"],
     [m |-> "conn_open_ack",      family |-> "Connection", variant |-> "OpenAck"],
     [m |-> "conn_open_confirm",  family |-> "Connection", variant |-> "OpenConfirm"],
     [m |-> "chan_open_init",     family |-> "Channel",    variant |-> "OpenInit"],
     [m |-> "chan_open_try",      family |-> "Channel",    variant |-> "OpenTry"],
     [m |-> "chan_open_ack",      family |-> "Channel",    variant |-> "OpenAck"],
     [m |-> "chan_open_confirm",  family |-> "Channel",    variant |-> "OpenConfirm"],
     [m |-> "chan_close_init",    family |-> "Channel",    variant |-> "CloseInit"],
     [m |-> "chan_close_confirm", family |-> "Channel",    variant |-> "CloseConfirm"],
     [m |-> "recv_packet",        family |-> "Packet",     variant |-> "Recv"],
     [m |-> "acknowledgement",    family |-> "Packet",     variant |-> "Ack"],
     [m |-> "timeout",            family |-> "Packet",     variant |-> "Timeout"],
     [m |-> "timeout_on_close",   family |-> "Packet",     variant |-> "TimeoutOnClose"] >>

\* ------------------------------------------------------------ wire payloads
\* A payload (Any.value) is the encoding of one message type's fields, or
\* bytes that encode nothing.  enc names the module whose message the bytes
\* encode ("garbage": none).  The fields a message carries:
\*   id       the client, connection or channel the message names
\*   seq      the packet sequence (packet messages)
\*   proof    whether the proof (or header) the message carries verifies
\*   version  whether the proposed versions intersect the local ones
\*   ordering the channel ordering (channel open messages)
Payload(enc, id, seq, proof, version, ordering) ==
  [enc |-> enc, id |-> id, seq |-> seq, proof |-> proof, version |-> version,
   ordering |-> ordering]

Garbage == Payload("garbage", 0, 0, FALSE, FALSE, "Unordered")

Orderings == {"Ordered", "Unordered"}

\* The well-formed payloads of message module m.
Encodings(m) ==
  CASE m = "create_client" ->
         { Payload(m, 0, 0, TRUE, TRUE, "Unordered") }
    [] m \in {"update_client", "upgrade_client"} ->
         { Payload(m, id, 0, p, TRUE, "Unordered") : id \in 1..MaxClient, p \in BOOLEAN }
    [] m = "conn_open_init" ->
         { Payload(m, id, 0, TRUE, TRUE, "Unordered") : id \in 1..MaxClient }
    [] m = "conn_open_try" ->
         { Payload(m, 1, 0, pv[1], pv[2], "Unordered") : pv \in BOOLEAN \X BOOLEAN }
    [] m \in {"conn_open_ack", "conn_open_confirm"} ->
         { Payload(m, id, 0, p, TRUE, "Unordered") : id \in 1..MaxConn, p \in BOOLEAN }
    [] m = "chan_open_init" ->
         { Payload(m, id, 0, TRUE, TRUE, o) : id \in 1..MaxConn, o \in Orderings }
    [] m = "chan_open_try" ->
         { Payload(m, id, 0, p, TRUE, "Ordered") : id \in 1..MaxConn, p \in BOOLEAN }
    [] m \in {"chan_open_ack", "chan_open_confirm", "chan_close_confirm"} ->
         { Payload(m, id, 0, p, TRUE, "Unordered") : id \in 1..MaxChan, p \in BOOLEAN }
    [] m = "chan_close_init" ->
         { Payload(m, id, 0, TRUE, TRUE, "Unordered") : id \in 1..MaxChan }
    [] OTHER ->
         { Payload(m, id, s, p, TRUE, "Unordered") :
             id \in 1..MaxChan, s \in 1..(MaxSeq + 1), p \in BOOLEAN }

\* The wire messages submitted to the router: every known tag with each of
\* its well-formed payloads, with bytes that encode nothing, and with the
\* encoding of another message type; and unknown tags.
Anys ==
  UNION { { [type_url |-> TYPE_URL[m], value |-> v] : v \in Encodings(m) \cup {Garbage} }
          : m \in MsgModules }
  \cup { [type_url |-> TYPE_URL[m], value |-> Payload("create_client", 0, 0, TRUE, TRUE, "Unordered")]
         : m \in {"update_client", "conn_open_ack", "recv_packet"} }
  \cup { [type_url |-> u, value |-> v] :
         u \in UnknownUrls, v \in {Garbage, Payload("create_client", 0, 0, TRUE, TRUE, "Unordered")} }

\* Protobuf::decode_vec for the message type of module m: the bytes decode
\* exactly when they encode a message of that type.
decode_vec(m, value) ==
  IF value.enc = m THEN [ok |-> TRUE, msg |-> value] ELSE [ok |-> FALSE, msg |-> value]

\* What decoding produces: a typed envelope (tag "Ok") or a RouterError.
Decoded(tag, url, family, variant, msg) ==
  [tag |-> tag, url |-> url, family |-> family, variant |-> variant, msg |-> msg]

\* The first arm of the match whose TYPE_URL is the tag (0: the `_` arm).
FirstArm(url) ==
  IF \E i \in 1..Len(Arms) : TYPE_URL[Arms[i].m] = url
  THEN CHOOSE i \in 1..Len(Arms) :
         /\ TYPE_URL[Arms[i].m] = url
         /\ \A j \in 1..(i - 1) : TYPE_URL[Arms[j].m] # url
  ELSE 0

\* try_from with a `_` arm that reports the bytes, not the tag.
try_from_default_malformed(any_msg) ==
  LET i == FirstArm(any_msg.type_url) IN
  IF i = 0
  THEN Decoded("MalformedMessageBytes", "", "None", "None", any_msg.value)
  ELSE LET d == decode_vec(Arms[i].m, any_msg.value) IN
       IF d.ok
       THEN Decoded("Ok", "", Arms[i].family, Arms[i].variant, d.msg)
       ELSE Decoded("MalformedMessageBytes", "", "None", "None", any_msg.value)

\* TryFrom<Any> for MsgEnvelope.
try_from(any_msg) ==
  LET i == FirstArm(any_msg.type_url) IN
  IF i = 0
  THEN Decoded("UnknownMessageTypeUrl", any_msg.type_url, "None", "None", any_msg.value)
  ELSE LET d == decode_vec(Arms[i].m, any_msg.value) IN
       IF d.ok
       THEN Decoded("Ok", "", Arms[i].family, Arms[i].variant, d.msg)
       ELSE Decoded("MalformedMessageBytes", "", "None", "None", any_msg.value)

\* ------------------------------------------------------- the ledger context
\* ctx is the host's ledger context (Ctx: ReaderContext + KeeperContext):
\*   clients      the client registry: each client's latest height, frozen flag
\*   connections  each ConnectionEnd's state
\*   channels     each ChannelEnd: state, ordering, the connection it sits on
\*   commitments  the packet commitments held, keyed by <<channel, sequence>>
\*   receipts     the packet receipts held (Unordered channels)
\*   nextSeqSend, nextSeqRecv   the per-channel sequence counters
\*   events       the event log
\* last is the router's latest invocation: the wire message and what each
\* stage made of it.
\* finalizedBy records, for each commitment removed, the kind of message
\* that removed it: <<channel, sequence, "Ack" | "Timeout">>.
\* conv is the value conversion under way outside the router (the
\* solomachine codec, the NFT transfer events): its input and, once it has
\* run, its output.
VARIABLES ctx, last, finalizedBy, conv

vars == <<ctx, last, finalizedBy, conv>>

\* No conversion under way.
NoConversion == [kind |-> "None", input |-> <<>>, done |-> FALSE, output |-> <<>>]

ConnStates == {"Init", "TryOpen", "Open"}

ChanStates == {"Init", "TryOpen", "Open", "Closed"}

\* What a handler's execute returns: Ok with the written context, or an
\* error with the context as it was.
Done(c) == [res |-> "Ok", ctx |-> c]

Failed(c) == [res |-> "Err", ctx |-> c]

\* todo!(): the call never returns; the transition is aborted.
Todo(c) == [res |-> "Panic", ctx |-> c]

\* ------------------------------------------------------ ICS02 client handlers
create_client_validate(c, msg) == "Ok"

create_client_execute(c, msg) ==
  Done([c EXCEPT !.clients = Append(@, [height |-> 1, frozen |-> FALSE]),
                 !.events = Append(@, "create_client")])

update_client_validate(c, msg) ==
  IF /\ msg.id \in 1..Len(c.clients)
     /\ ~c.clients[msg.id].frozen
     /\ msg.proof
  THEN "Ok" ELSE "Err"

update_client_execute(c, msg) ==
  Done([c EXCEPT !.clients[msg.id].height = @ + 1,
                 !.events = Append(@, "update_client")])

misbehaviour_execute(c, msg) ==
  IF msg.id \in 1..Len(c.clients)
  THEN Done([c EXCEPT !.clients[msg.id].frozen = TRUE,
                      !.events = Append(@, "client_misbehaviour")])
  ELSE Failed(c)

upgrade_client_execute(c, msg) ==
  IF msg.id \in 1..Len(c.clients)
  THEN Done([c EXCEPT !.clients[msg.id].frozen = FALSE,
                      !.events = Append(@, "upgrade_client")])
  ELSE Failed(c)

\* -------------------------------------------------- ICS03 connection handlers
\* execute assumes validate has passed: it applies the transition without
\* re-checking the connection's state.
conn_open_init_execute(c, msg) ==
  Done([c EXCEPT !.connections = Append(@, "Init"),
                 !.events = Append(@, "connection_open_init")])

conn_open_try_execute(c, msg) ==
  Done([c EXCEPT !.connections = Append(@, "TryOpen"),
                 !.events = Append(@, "connection_open_try")])

conn_open_ack_execute(c, msg) ==
  IF msg.id \in 1..Len(c.connections)
  THEN Done([c EXCEPT !.connections[msg.id] = "Open",
                      !.events = Append(@, "connection_open_ack")])
  ELSE Failed(c)

conn_open_confirm_execute(c, msg) ==
  IF msg.id \in 1..Len(c.connections)
  THEN Done([c EXCEPT !.connections[msg.id] = "Open",
                      !.events = Append(@, "connection_open_confirm")])
  ELSE Failed(c)

\* ----------------------------------------------------- ICS04 channel handlers
\* ChanOpenInit names the connection the channel sits on; the connection
\* must exist.
chan_open_init_validate(c, msg) ==
  IF msg.id \in 1..Len(c.connections) THEN "Ok" ELSE "Err"

\* chan_open_init's execute writing the new ChannelEnd as Open.
chan_open_init_execute_open(c, msg) ==
  Done([c EXCEPT !.channels = Append(@, [state |-> "Open", ordering |-> msg.ordering,
                                         conn |-> msg.id]),
                 !.nextSeqSend = Append(@, 1),
                 !.nextSeqRecv = Append(@, 1),
                 !.events = Append(@, "channel_open_init")])

chan_open_init_execute(c, msg) ==
  Done([c EXCEPT !.channels = Append(@, [state |-> "Init", ordering |-> msg.ordering,
                                         conn |-> msg.id]),
                 !.nextSeqSend = Append(@, 1),
                 !.nextSeqRecv = Append(@, 1),
                 !.events = Append(@, "channel_open_init")])

\* validate with every todo!() arm returning Ok(()).
validate_todo_ok(c, env) ==
  IF env.family = "Client" /\ env.variant = "CreateClient"
  THEN create_client_validate(c, env.msg)
  ELSE IF env.family = "Client" /\ env.variant = "UpdateClient"
  THEN update_client_validate(c, env.msg)
  ELSE IF env.family = "Channel" /\ env.variant = "OpenInit"
  THEN chan_open_init_validate(c, env.msg)
  ELSE "Ok"

\* ------------------------------------------------------------------ validate
\* ValidationHandler<MsgEnvelope>::validate: "Ok", "Err" (a ContextError), or
\* "Panic" where the arm is todo!().
validate(c, env) ==
  CASE env.family = "Client" ->
         ( CASE env.variant = "CreateClient" -> create_client_validate(c, env.msg)
             [] env.variant = "UpdateClient" -> update_client_validate(c, env.msg)
             [] env.variant = "Misbehaviour" -> "Panic"
             [] env.variant = "UpgradeClient" -> "Panic" )
    [] env.family = "Connection" ->
         ( CASE env.variant = "OpenInit" -> "Panic"
             [] env.variant = "OpenTry" -> "Panic"
             [] env.variant = "OpenAck" -> "Panic"
             [] env.variant = "OpenConfirm" -> "Panic" )
    [] env.family = "Channel" ->
         ( CASE env.variant = "OpenInit" -> chan_open_init_validate(c, env.msg)
             [] env.variant = "OpenTry" -> "Panic"
             [] env.variant = "OpenAck" -> "Panic"
             [] env.variant = "OpenConfirm" -> "Panic"
             [] env.variant = "CloseInit" -> "Panic"
             [] env.variant = "CloseConfirm" -> "Panic" )
    [] env.family = "Packet" ->
         ( CASE env.variant = "Recv" -> "Panic"
             [] env.variant = "Ack" -> "Panic"
             [] env.variant = "Timeout" -> "Panic"
             [] env.variant = "TimeoutOnClose" -> "Panic" )

\* execute with the ChannelMsg::OpenInit arm unfinished like the other
\* channel arms.
execute_open_init_todo(c, env) ==
  CASE env.family = "Client" ->
         ( CASE env.variant = "CreateClient" -> create_client_execute(c, env.msg)
             [] env.variant = "UpdateClient" -> update_client_execute(c, env.msg)
             [] env.variant = "Misbehaviour" -> misbehaviour_execute(c, env.msg)
             [] env.variant = "UpgradeClient" -> upgrade_client_execute(c, env.msg) )
    [] env.family = "Connection" ->
         ( CASE env.variant = "OpenInit" -> conn_open_init_execute(c, env.msg)
             [] env.variant = "OpenTry" -> conn_open_try_execute(c, env.msg)
             [] env.variant = "OpenAck" -> conn_open_ack_execute(c, env.msg)
             [] env.variant = "OpenConfirm" -> conn_open_confirm_execute(c, env.msg) )
    [] OTHER -> Todo(c)

\* ------------------------------------------------------------------- execute
\* ExecutionHandler<MsgEnvelope>::execute.
execute(c, env) ==
  CASE env.family = "Client" ->
         ( CASE env.variant = "CreateClient" -> create_client_execute(c, env.msg)
             [] env.variant = "UpdateClient" -> update_client_execute(c, env.msg)
             [] env.variant = "Misbehaviour" -> misbehaviour_execute(c, env.msg)
             [] env.variant = "UpgradeClient" -> upgrade_client_execute(c, env.msg) )
    [] env.family = "Connection" ->
         ( CASE env.variant = "OpenInit" -> conn_open_init_execute(c, env.msg)
             [] env.variant = "OpenTry" -> conn_open_try_execute(c, env.msg)
             [] env.variant = "OpenAck" -> conn_open_ack_execute(c, env.msg)
             [] env.variant = "OpenConfirm" -> conn_open_confirm_execute(c, env.msg) )
    [] env.family = "Channel" ->
         ( CASE env.variant = "OpenInit" -> chan_open_init_execute(c, env.msg)
             [] env.variant = "OpenTry" -> Todo(c)
             [] env.variant = "OpenAck" -> Todo(c)
             [] env.variant = "OpenConfirm" -> Todo(c)
             [] env.variant = "CloseInit" -> Todo(c)
             [] env.variant = "CloseConfirm" -> Todo(c) )
    [] env.family = "Packet" ->
         ( CASE env.variant = "Recv" -> Todo(c)
             [] env.variant = "Ack" -> Todo(c)
             [] env.variant = "Timeout" -> Todo(c)
             [] env.variant = "TimeoutOnClose" -> Todo(c) )

\* ---------------------------------------------------------------- the router
\* How an invocation ends, as its caller sees it.
Outcome(d, v, e) ==
  IF d.tag # "Ok" THEN "DecodeError"
  ELSE IF v = "Err" THEN "ValidationError"
  ELSE IF v = "Panic" THEN "Abort"
  ELSE IF e.res = "Ok" THEN "Ok"
  ELSE IF e.res = "Err" THEN "ExecutionError"
  ELSE "Abort"

Invocation(any_msg, d, v, e) ==
  [type_url |-> any_msg.type_url, value |-> any_msg.value,
   decoded |-> d.tag, url |-> d.url, family |-> d.family, variant |-> d.variant,
   verdict |-> v, exec |-> e.res, outcome |-> Outcome(d, v, e)]

\* The registries' counters are capped: a message that would create an
\* entity past its cap is not submitted.
WithinBounds(c, d) ==
  /\ (d.family = "Client" /\ d.variant = "CreateClient") => Len(c.clients) < MaxClient
  /\ (d.family = "Client" /\ d.variant = "UpdateClient" /\ d.msg.proof
        /\ d.msg.id \in 1..Len(c.clients))
       => c.clients[d.msg.id].height < MaxHeight
  /\ (d.family = "Connection" /\ d.variant \in {"OpenInit", "OpenTry"})
       => Len(c.connections) < MaxConn
  /\ (d.family = "Channel" /\ d.variant = "OpenInit") => Len(c.channels) < MaxChan

\* A router that runs execute whatever validate returned.
RouteUnchecked(c, any_msg) ==
  LET d == try_from(any_msg)
      v == IF d.tag = "Ok" THEN validate(c, d) ELSE "NotRun"
      e == IF d.tag = "Ok" THEN execute(c, d) ELSE [res |-> "NotRun", ctx |-> c]
  IN  [ctx |-> IF e.res = "Ok" THEN e.ctx ELSE c,
       last |-> Invocation(any_msg, d, v, e)]

\* Envelope -> Validation Handler -> (on success) Execution Handler.  The
\* store is transactional per invocation: a failed or aborted execute
\* commits nothing.
Route(c, any_msg) ==
  LET d == try_from(any_msg)
      v == IF d.tag = "Ok" THEN validate(c, d) ELSE "NotRun"
      e == IF v = "Ok" THEN execute(c, d) ELSE [res |-> "NotRun", ctx |-> c]
  IN  [ctx |-> IF e.res = "Ok" THEN e.ctx ELSE c,
       last |-> Invocation(any_msg, d, v, e)]

\* The host submits a wire message; the router handles it to the end.
Dispatch(any_msg) ==
  /\ last.outcome = "Idle"
  /\ WithinBounds(ctx, try_from(any_msg))
  /\ LET r == Route(ctx, any_msg)
     IN  /\ ctx' = r.ctx
         /\ last' = r.last
         /\ finalizedBy' =
              IF r.last.outcome = "Ok" /\ r.last.family = "Packet"
                 /\ r.last.variant \in {"Ack", "Timeout", "TimeoutOnClose"}
              THEN finalizedBy \cup { <<r.last.value.id, r.last.value.seq,
                                        IF r.last.variant = "Ack" THEN "Ack" ELSE "Timeout">> }
              ELSE finalizedBy
  /\ UNCHANGED conv

\* ---------------------------------------------------------------------- Init
RECURSIVE SeqsUpTo(_, _)
\* The sequences over S of length at most n.
SeqsUpTo(S, n) ==
  IF n = 0 THEN { <<>> }
  ELSE LET shorter == SeqsUpTo(S, n - 1)
       IN  shorter \cup { Append(q, x) : q \in { r \in shorter : Len(r) = n - 1 }, x \in S }

Ledger(cl, cs, ch, pending, got, send, recv) ==
  [clients |-> cl, connections |-> cs, channels |-> ch,
   commitments |-> pending, receipts |-> got,
   nextSeqSend |-> send, nextSeqRecv |-> recv, events |-> <<>>]

\* The client registry at its cap, every client at the latest height.
UpToDate == [i \in 1..MaxClient |-> [height |-> MaxHeight, frozen |-> FALSE]]

\* The packet state of an Open or Closed channel: the next sequence to
\* send, the sent sequences whose commitment is still held, and the
\* receipts.  An Ordered channel keeps a counter and no receipts, an
\* Unordered one receipts and no counter.
PacketStates(ord) ==
  { p \in [send : 1..(MaxSeq + 1), pending : SUBSET (1..MaxSeq),
           recv : 1..(MaxSeq + 1), got : SUBSET (1..MaxSeq)] :
      /\ \A s \in p.pending : s < p.send
      /\ ord = "Ordered" => p.got = {}
      /\ ord = "Unordered" => p.recv = 1 }

\* Ledgers with connections and no channel yet.
ConnLayer ==
  { Ledger(IF cs = <<>> THEN <<>> ELSE UpToDate, cs, <<>>, {}, {}, <<>>, <<>>) :
      cs \in SeqsUpTo(ConnStates, MaxConn) }

\* Ledgers with one channel in its handshake or past it, no packet sent or
\* received.  A channel past Init sits on an Open connection.
ChanLayer ==
  { Ledger(UpToDate, x[1], << [state |-> x[3], ordering |-> x[4], conn |-> x[2]] >>,
           {}, {}, <<1>>, <<1>>) :
      x \in { y \in SeqsUpTo(ConnStates, MaxConn) \X (1..MaxConn) \X ChanStates \X Orderings :
                /\ y[2] \in 1..Len(y[1])
                /\ y[3] # "Init" => y[1][y[2]] = "Open" } }

\* Ledgers with one Open or Closed channel on an Open connection, and
\* packets in flight.
PacketLayer ==
  { Ledger(UpToDate, <<"Open">>, << [state |-> x[1], ordering |-> x[2], conn |-> 1] >>,
           { <<1, s>> : s \in x[3].pending }, { <<1, s>> : s \in x[3].got },
           << x[3].send >>, << x[3].recv >>) :
      x \in { y \in {"Open", "Closed"} \X Orderings \X PacketStates("Any") :
                y[3] \in PacketStates(y[2]) } }

\* The context is a type parameter of the handlers (Ctx: ReaderContext,
\* Ctx: KeeperContext): the host owns the ledger and hands it to each
\* invocation.  The ledgers it hands over are those of the data model: what
\* earlier transitions left.
InitCtxs == ConnLayer \cup ChanLayer \cup PacketLayer

\* The sent sequences of a ledger whose commitment is no longer held.
Removed(c) ==
  { k \in (1..Len(c.channels)) \X (1..MaxSeq) :
      k[2] < c.nextSeqSend[k[1]] /\ k \notin c.commitments }

\* Each removed commitment was removed by an acknowledgement or a timeout.
Finalizations(c) ==
  { { <<k[1], k[2], f[k]>> : k \in Removed(c) } : f \in [Removed(c) -> {"Ack", "Timeout"}] }

Idle ==
  [type_url |-> "", value |-> Garbage, decoded |-> "None", url |-> "",
   family |-> "None", variant |-> "None", verdict |-> "NotRun", exec |-> "NotRun",
   outcome |-> "Idle"]

Init ==
  /\ ctx \in InitCtxs
  /\ last = Idle
  /\ finalizedBy \in Finalizations(ctx)
  /\ conv = NoConversion

\* The invocation's result, with the events it emitted, is back with the
\* host, which may submit again.
Return ==
  /\ last.outcome # "Idle"
  /\ last' = Idle
  /\ ctx' = [ctx EXCEPT !.events = <<>>]
  /\ UNCHANGED <<finalizedBy, conv>>

Next ==
  \/ \E any_msg \in Anys : Dispatch(any_msg)
  \/ Return

Spec == Init /\ [][Next]_vars

\* ------------------------------------- ICS06 solomachine PacketCommitmentData
\* The longest path and commitment converted.
MaxBytes == 2

Bytes == {0, 1, 255}

\* struct PacketCommitmentData { path: Vec<u8>, commitment: Vec<u8> }
PacketCommitmentDatas == [path : SeqsUpTo(Bytes, MaxBytes), commitment : SeqsUpTo(Bytes, MaxBytes)]

\* What a conversion hands back: a value, or nothing where the body is
\* todo!() and the call never returns.
Converted(v) == [res |-> "Ok", value |-> v]

Unfinished == [res |-> "Panic", value |-> <<>>]

\* From<PacketCommitmentData> for RawPacketCommitmentData.
RawPacketCommitmentData_from(value) == Unfinished

\* TryFrom<RawPacketCommitmentData> for PacketCommitmentData.
PacketCommitmentData_try_from(raw) == Unfinished

\* ----------------------------------------------- ICS721 NFT transfer events
EVENT_TYPE_PACKET == "nft_packet"

EVENT_TYPE_CLASS_TRACE == "nft_class_trace"

\* AcknowledgementStatus: Success(StatusValue) or Error(StatusValue).
AcknowledgementStatuses == [tag : {"Success", "Error"}, value : {"AQ==", "success", "error"}]

\* Display for AcknowledgementStatus: the status value, without the variant.
to_string(acknowledgement) == acknowledgement.value

\* PrefixedClass: a trace path and a base class id.
PrefixedClasses == [trace_path : {"", "nft-transfer/channel-0"}, base_class_id : {"kitty", "error"}]

\* Display for PrefixedClass.
class_to_string(class) ==
  IF class.trace_path = "" THEN class.base_class_id
  ELSE class.trace_path \o "/" \o class.base_class_id

\* Option<String>.
None == [some |-> FALSE, v |-> ""]

Some(v) == [some |-> TRUE, v |-> v]

AckStatusEvents == [acknowledgement : AcknowledgementStatuses]

ClassTraceEvents == [trace_hash : {None, Some("0A1B"), Some("class")}, class : PrefixedClasses]

\* From<(K, V)> for ModuleAttribute.
ModuleAttribute(key, value) == [key |-> key, value |-> value]

\* From<AckStatusEvent> for ModuleEvent with the label of the first match
\* arm, whatever the status.
ModuleEvent_from_AckStatusEvent_one_label(ev) ==
  [kind |-> EVENT_TYPE_PACKET,
   attributes |-> << ModuleAttribute("success", to_string(ev.acknowledgement)) >>]

\* From<AckStatusEvent> for ModuleEvent.
ModuleEvent_from_AckStatusEvent(ev) ==
  LET acknowledgement == ev.acknowledgement
      attr_label == CASE acknowledgement.tag = "Success" -> "success"
                      [] acknowledgement.tag = "Error" -> "error"
  IN  [kind |-> EVENT_TYPE_PACKET,
       attributes |-> << ModuleAttribute(attr_label, to_string(acknowledgement)) >>]

\* From<ClassTraceEvent> for ModuleEvent pushing trace_hash unconditionally.
ModuleEvent_from_ClassTraceEvent_always_hash(ev) ==
  [kind |-> EVENT_TYPE_CLASS_TRACE,
   attributes |-> << ModuleAttribute("class", class_to_string(ev.class)),
                     ModuleAttribute("trace_hash", ev.trace_hash.v) >>]

\* From<ClassTraceEvent> for ModuleEvent.
ModuleEvent_from_ClassTraceEvent(ev) ==
  LET first == [kind |-> EVENT_TYPE_CLASS_TRACE,
                attributes |-> << ModuleAttribute("class", class_to_string(ev.class)) >>]
  IN  IF ev.trace_hash.some
      THEN [first EXCEPT !.attributes = Append(@, ModuleAttribute("trace_hash", ev.trace_hash.v))]
      ELSE first

\* ------------------------------------------------------ the value conversions
\* A caller holds a value and converts it: a PacketCommitmentData to its
\* raw form and back, an event to a ModuleEvent.
Conversions ==
  { [kind |-> "PacketCommitmentData", input |-> v, done |-> FALSE, output |-> <<>>] :
      v \in PacketCommitmentDatas }
  \cup { [kind |-> "AckStatusEvent", input |-> ev, done |-> FALSE, output |-> <<>>] :
           ev \in AckStatusEvents }
  \cup { [kind |-> "ClassTraceEvent", input |-> ev, done |-> FALSE, output |-> <<>>] :
           ev \in ClassTraceEvents }

ValuesInit ==
  /\ ctx = Ledger(<<>>, <<>>, <<>>, {}, {}, <<>>, <<>>)
  /\ last = Idle
  /\ finalizedBy = {}
  /\ conv \in Conversions

\* value -> RawPacketCommitmentData -> PacketCommitmentData.
RoundTrip ==
  /\ conv.kind = "PacketCommitmentData" /\ ~conv.done
  /\ LET raw == RawPacketCommitmentData_from(conv.input)
         back == IF raw.res = "Ok" THEN PacketCommitmentData_try_from(raw.value) ELSE raw
     IN  conv' = [conv EXCEPT !.done = TRUE, !.output = back]
  /\ UNCHANGED <<ctx, last, finalizedBy>>

AckStatusToModuleEvent ==
  /\ conv.kind = "AckStatusEvent" /\ ~conv.done
  /\ conv' = [conv EXCEPT !.done = TRUE,
                          !.output = ModuleEvent_from_AckStatusEvent(conv.input)]
  /\ UNCHANGED <<ctx, last, finalizedBy>>

ClassTraceToModuleEvent ==
  /\ conv.kind = "ClassTraceEvent" /\ ~conv.done
  /\ conv' = [conv EXCEPT !.done = TRUE,
                          !.output = ModuleEvent_from_ClassTraceEvent(conv.input)]
  /\ UNCHANGED <<ctx, last, finalizedBy>>

ValuesNext ==
  \/ RoundTrip
  \/ AckStatusToModuleEvent
  \/ ClassTraceToModuleEvent

SpecValues == ValuesInit /\ [][ValuesNext]_vars

\* =================================================================== claims
\* The typed envelope an invocation decoded.
EnvelopeOf(inv) == [family |-> inv.family, variant |-> inv.variant, msg |-> inv.value]

\* A step in which the router handles a message.
Handled == last.outcome = "Idle" /\ last'.outcome # "Idle"

\* C1: the ledger context is written (entities or events) while the router
\* handles a message only if the message decoded and validate returned
\* success for it against the context as it was before the write.
C1_MutationOnlyAfterValidation ==
  [][ (Handled /\ ctx' # ctx)
        => /\ last'.decoded = "Ok"
           /\ last'.verdict = "Ok"
           /\ validate(ctx, EnvelopeOf(last')) = "Ok" ]_vars

\* C1 witness: a ChanOpenInit passed validation and was executed: the
\* channel exists and its event is in the log.
C1_Witness ==
  /\ last.outcome = "Ok"
  /\ last.family = "Channel" /\ last.variant = "OpenInit"
  /\ Len(ctx.channels) > 0
  /\ ctx.events = <<"channel_open_init">>

\* C2: a message rejected by the decoder or by validation leaves every
\* stored entity and the event log as they were.
C2_RejectedLeavesStore ==
  [][ (Handled /\ last'.outcome \in {"DecodeError", "ValidationError"})
        => ctx' = ctx ]_vars

\* C2 witness: an UpdateClient was rejected by validation on a ledger that
\* holds clients and connections.
C2_Witness ==
  /\ last.outcome = "ValidationError"
  /\ last.variant = "UpdateClient"
  /\ Len(ctx.clients) > 0
  /\ Len(ctx.connections) > 0

\* C3: a wire message whose tag is none of the known tags decodes, whatever
\* its payload, to UnknownMessageTypeUrl carrying the submitted tag, and no
\* entity is touched.
C3_UnknownTag ==
  [][ (Handled /\ last'.type_url \notin KnownUrls)
        => /\ last'.decoded = "UnknownMessageTypeUrl"
           /\ last'.url = last'.type_url
           /\ ctx' = ctx
           /\ finalizedBy' = finalizedBy ]_vars

\* C3 witness: "foo.bar.Msg" with a payload that would decode as a
\* CreateClient was submitted on a ledger holding a channel.
C3_Witness ==
  /\ last.type_url = "foo.bar.Msg"
  /\ last.value.enc = "create_client"
  /\ last.decoded = "UnknownMessageTypeUrl"
  /\ last.url = "foo.bar.Msg"
  /\ Len(ctx.channels) > 0

\* The message module a known tag belongs to.
ModuleOf(url) == CHOOSE m \in MsgModules : TYPE_URL[m] = url

\* C4: for each known tag, a payload that fails to decode as that tag's
\* message gives MalformedMessageBytes: never UnknownMessageTypeUrl, never
\* a typed message.
C4_MalformedPayload ==
  (last.outcome # "Idle" /\ last.type_url \in KnownUrls
     /\ ~decode_vec(ModuleOf(last.type_url), last.value).ok)
    => /\ last.decoded = "MalformedMessageBytes"
       /\ last.family = "None"
       /\ last.outcome = "DecodeError"

\* C4 witness: the timeout_on_close tag (the last arm) was submitted with
\* bytes that encode nothing.
C4_Witness ==
  /\ last.type_url = TYPE_URL["timeout_on_close"]
  /\ last.value = Garbage
  /\ last.decoded = "MalformedMessageBytes"

\* The handshake order of ConnectionEnd states.
ConnRank(st) == CASE st = "Init" -> 1 [] st = "TryOpen" -> 2 [] st = "Open" -> 3

\* The state a connection must be in for a connection message to change it
\* ("None": the message creates a connection and changes no existing one).
ConnPredecessor(variant) ==
  CASE variant = "OpenAck" -> "Init"
    [] variant = "OpenConfirm" -> "TryOpen"
    [] OTHER -> "None"

\* C5: no connection is ever removed, and whenever a step changes the state
\* of a connection the state advances in the order Init, TryOpen, Open, the
\* step handles a connection message naming that connection, and the
\* connection was in that message's required predecessor state (Init for
\* OpenAck, TryOpen for OpenConfirm).
C5_ConnectionAdvancesOnly ==
  [][ /\ Len(ctx'.connections) >= Len(ctx.connections)
      /\ \A i \in 1..Len(ctx.connections) :
           ctx'.connections[i] # ctx.connections[i]
             => /\ ConnRank(ctx'.connections[i]) > ConnRank(ctx.connections[i])
                /\ Handled
                /\ last'.family = "Connection"
                /\ last'.value.id = i
                /\ ConnPredecessor(last'.variant) = ctx.connections[i] ]_vars

\* C5 witness: an OpenAck naming a connection that is in TryOpen, not in
\* Init, carrying a proof that verifies, was handled, and the connection is
\* in TryOpen still.
C5_Witness ==
  /\ last.family = "Connection" /\ last.variant = "OpenAck"
  /\ last.value.proof
  /\ last.value.id \in 1..Len(ctx.connections)
  /\ ctx.connections[last.value.id] = "TryOpen"

\* The packet message an invocation carried names channel ch, sequence sq.
PacketMsg(inv, variants, ch, sq) ==
  /\ inv.family = "Packet" /\ inv.variant \in variants
  /\ inv.value.id = ch /\ inv.value.seq = sq

\* C6: a commitment is removed at most once; an Acknowledge for a sequence
\* whose commitment a Timeout removed fails validation, and so does a
\* Timeout or TimeoutOnClose for a sequence whose commitment an Acknowledge
\* removed.
C6_AckTimeoutExclusive ==
  /\ \A f \in finalizedBy, g \in finalizedBy :
       (f[1] = g[1] /\ f[2] = g[2]) => f = g
  /\ \A f \in finalizedBy :
       ( \/ (f[3] = "Timeout" /\ PacketMsg(last, {"Ack"}, f[1], f[2]))
         \/ (f[3] = "Ack" /\ PacketMsg(last, {"Timeout", "TimeoutOnClose"}, f[1], f[2])) )
         => last.outcome = "ValidationError"

\* C7: an Acknowledge resubmitted for a sequence an Acknowledge finalized,
\* or a Timeout for a sequence a Timeout finalized, fails validation and
\* leaves every entity as it was.
C7_ResubmissionRejected ==
  [][ (Handled /\ \E f \in finalizedBy :
                    \/ (f[3] = "Ack" /\ PacketMsg(last', {"Ack"}, f[1], f[2]))
                    \/ (f[3] = "Timeout" /\ PacketMsg(last', {"Timeout"}, f[1], f[2])))
        => /\ last'.outcome = "ValidationError"
           /\ ctx' = ctx
           /\ finalizedBy' = finalizedBy ]_vars

\* The channel a packet message names exists, is Open and has ordering ord.
OnOpenChannel(c, inv, ord) ==
  /\ inv.family = "Packet" /\ inv.variant = "Recv"
  /\ inv.value.id \in 1..Len(c.channels)
  /\ c.channels[inv.value.id].state = "Open"
  /\ c.channels[inv.value.id].ordering = ord

\* C8: on an Ordered channel a Receive is accepted only with the sequence
\* the counter expects, and then advances the counter by one; a Receive
\* with any other sequence fails validation and leaves the counter.
C8_OrderedReceive ==
  [][ (Handled /\ OnOpenChannel(ctx, last', "Ordered"))
        => LET ch == last'.value.id
               sq == last'.value.seq
           IN  /\ last'.outcome = "Ok"
                    => /\ sq = ctx.nextSeqRecv[ch]
                       /\ ctx'.nextSeqRecv[ch] = sq + 1
               /\ sq # ctx.nextSeqRecv[ch]
                    => /\ last'.outcome = "ValidationError"
                       /\ ctx'.nextSeqRecv = ctx.nextSeqRecv ]_vars

\* C9: on an Unordered channel a Receive is accepted only for a sequence
\* that has no receipt, and then records one; a Receive for a sequence that
\* has a receipt fails validation.
C9_UnorderedReceiveOnce ==
  [][ (Handled /\ OnOpenChannel(ctx, last', "Unordered"))
        => LET k == <<last'.value.id, last'.value.seq>>
           IN  /\ last'.outcome = "Ok"
                    => (k \notin ctx.receipts /\ k \in ctx'.receipts)
               /\ k \in ctx.receipts
                    => /\ last'.outcome = "ValidationError"
                       /\ ctx'.receipts = ctx.receipts ]_vars

\* C10: every ChannelEnd in state Open sits on a ConnectionEnd in state
\* Open.
C10_OpenChannelOnOpenConnection ==
  \A i \in 1..Len(ctx.channels) :
    ctx.channels[i].state = "Open"
      => /\ ctx.channels[i].conn \in 1..Len(ctx.connections)
         /\ ctx.connections[ctx.channels[i].conn] = "Open"

\* C10 witness: a channel handshake message that would open a channel
\* (OpenAck or OpenConfirm, with a proof that verifies) was handled for a
\* channel whose connection is not Open, and the channel is not Open.
C10_Witness ==
  /\ last.family = "Channel" /\ last.variant \in {"OpenAck", "OpenConfirm"}
  /\ last.value.proof
  /\ last.value.id \in 1..Len(ctx.channels)
  /\ ctx.connections[ctx.channels[last.value.id].conn] \in {"Init", "TryOpen"}
  /\ ctx.channels[last.value.id].state # "Open"

\* The channel a packet message names exists and is Closed.
OnClosedChannel(c, inv) ==
  /\ inv.family = "Packet"
  /\ inv.value.id \in 1..Len(c.channels)
  /\ c.channels[inv.value.id].state = "Closed"

\* C11: a channel that is Closed is Closed after every step, and a Receive,
\* Acknowledge, Timeout or TimeoutOnClose naming a Closed channel is
\* rejected: it fails validation and the ledger is as it was.
C11_ClosedIsTerminal ==
  [][ /\ \A i \in 1..Len(ctx.channels) :
           ctx.channels[i].state = "Closed"
             => /\ i \in 1..Len(ctx'.channels)
                /\ ctx'.channels[i].state = "Closed"
      /\ (Handled /\ OnClosedChannel(ctx, last'))
           => /\ last'.outcome = "ValidationError"
              /\ ctx' = ctx ]_vars

\* C13: an OpenTry whose proposed versions do not intersect the local ones
\* fails validation, and no ConnectionEnd is created.
C13_DisjointVersionsRejected ==
  [][ (Handled /\ last'.family = "Connection" /\ last'.variant = "OpenTry"
         /\ ~last'.value.version)
        => /\ last'.outcome = "ValidationError"
           /\ ctx'.connections = ctx.connections ]_vars

\* Every tag a relayer may put on the wire, and every payload: each message
\* type's well-formed payloads, a well-formed MsgSubmitMisbehaviour, and
\* bytes that encode nothing.
AllUrls == KnownUrls \cup UnknownUrls

WireValues ==
  UNION { Encodings(m) : m \in MsgModules }
  \cup { Garbage, Payload("misbehaviour", 1, 0, TRUE, TRUE, "Unordered") }

\* The tags the decoder maps into constructor k, for some payload.
TagsInto(k) ==
  { u \in AllUrls :
      \E v \in WireValues :
        LET d == try_from([type_url |-> u, value |-> v])
        IN  d.tag = "Ok" /\ <<d.family, d.variant>> = k }

\* C14: the envelope the router decoded came in by its constructor's one
\* tag; every constructor validate and execute dispatch on, ClientMsg's
\* Misbehaviour included, is the image of exactly one type tag; and no tag
\* maps into two constructors.
C14_OneTagPerConstructor ==
  /\ last.decoded = "Ok" => TagsInto(<<last.family, last.variant>>) = {last.type_url}
  /\ \A k \in Constructors : Cardinality(TagsInto(k)) = 1
  /\ \A j \in Constructors, k \in Constructors :
       j # k => TagsInto(j) \cap TagsInto(k) = {}

\* The envelopes the decoder produces from the wire messages.
Envelopes == { d \in { try_from(m) : m \in Anys } : d.tag = "Ok" }

\* C15: for every envelope the decoder produces and every ledger, validate
\* returns success or a typed error: it never aborts.
C15_ValidateReturns ==
  /\ last.decoded = "Ok" => last.verdict \in {"Ok", "Err"}
  /\ \A d \in Envelopes : validate(ctx, d) \in {"Ok", "Err"}

\* C16: whenever validate returns success for a message on a ledger,
\* execute on that message and ledger returns success, and the router's
\* invocation ends Ok with execute's writes committed.
C16_ValidatedExecutes ==
  /\ \A d \in Envelopes : validate(ctx, d) = "Ok" => execute(ctx, d).res = "Ok"
  /\ last.verdict = "Ok" => (last.exec = "Ok" /\ last.outcome = "Ok")

\* C16 witness: a ChanOpenInit was validated and executed, and the channel
\* it created is in the registry.
C16_Witness ==
  /\ last.verdict = "Ok" /\ last.outcome = "Ok"
  /\ last.family = "Channel" /\ last.variant = "OpenInit"
  /\ Len(ctx.channels) > 0
  /\ ctx.channels[Len(ctx.channels)].state = "Init"

\* The message is a connection-handshake step that carries a proof.
HandshakeStep(inv) ==
  inv.family = "Connection" /\ inv.variant \in {"OpenTry", "OpenAck", "OpenConfirm"}

\* Apart from its proof, the step is in order on ledger c: its versions
\* intersect and the ConnectionEnd it names is in the state the step leaves
\* from (OpenTry names a client and creates its ConnectionEnd).
StepInOrder(c, inv) ==
  /\ inv.value.version
  /\ inv.variant = "OpenTry" => inv.value.id \in 1..Len(c.clients)
  /\ inv.variant # "OpenTry"
       => /\ inv.value.id \in 1..Len(c.connections)
          /\ c.connections[inv.value.id] = ConnPredecessor(inv.variant)

\* The step took effect between ledgers c and d.
StepAdvanced(c, d, inv) ==
  IF inv.variant = "OpenTry"
  THEN d.connections = Append(c.connections, "TryOpen")
  ELSE d.connections = [c.connections EXCEPT ![inv.value.id] = "Open"]

\* C17: a connection-handshake step whose proof fails is rejected by
\* validation with every ConnectionEnd left as it was, and the same step
\* submitted with a proof that verifies succeeds and advances the
\* connection.
C17_FailedProofRetriable ==
  [][ (Handled /\ HandshakeStep(last') /\ StepInOrder(ctx, last'))
        => /\ ~last'.value.proof
                => /\ last'.outcome = "ValidationError"
                   /\ ctx'.connections = ctx.connections
           /\ last'.value.proof
                => /\ last'.outcome = "Ok"
                   /\ StepAdvanced(ctx, ctx', last') ]_vars

\* The family the tag belongs to: the create/update/upgrade-client tags are
\* Client, the conn_open_* tags Connection, the chan_open_* and chan_close_*
\* tags Channel, the recv_packet, acknowledgement, timeout and
\* timeout_on_close tags Packet.
FamilyOfTag(url) ==
  CASE url \in { TYPE_URL.create_client, TYPE_URL.update_client,
                 TYPE_URL.upgrade_client } -> "Client"
    [] url \in { TYPE_URL.conn_open_init, TYPE_URL.conn_open_try,
                 TYPE_URL.conn_open_ack, TYPE_URL.conn_open_confirm } -> "Connection"
    [] url \in { TYPE_URL.chan_open_init, TYPE_URL.chan_open_try,
                 TYPE_URL.chan_open_ack, TYPE_URL.chan_open_confirm,
                 TYPE_URL.chan_close_init, TYPE_URL.chan_close_confirm } -> "Channel"
    [] url \in { TYPE_URL.recv_packet, TYPE_URL.acknowledgement,
                 TYPE_URL.timeout, TYPE_URL.timeout_on_close } -> "Packet"
    [] OTHER -> "None"

\* C18: what the router decoded is what decoding the same (tag, payload)
\* gives again, whatever the ledger holds; and a message that decoded is in
\* the one family its tag belongs to.
C18_DecodingByTag ==
  last.outcome # "Idle"
    => LET again == try_from([type_url |-> last.type_url, value |-> last.value])
       IN  /\ <<last.decoded, last.url, last.family, last.variant>>
                = <<again.tag, again.url, again.family, again.variant>>
           /\ last.decoded = "Ok"
                => /\ last.family \in {"Client", "Connection", "Channel", "Packet"}
                   /\ last.family = FamilyOfTag(last.type_url)

\* C18 witness: an acknowledgement tag with a well-formed payload decoded
\* into the Packet family on a ledger holding a channel with packets sent.
C18_Witness ==
  /\ last.type_url = TYPE_URL.acknowledgement
  /\ last.decoded = "Ok" /\ last.family = "Packet" /\ last.variant = "Ack"
  /\ Len(ctx.channels) > 0
  /\ ctx.commitments # {}

\* C12: a PacketCommitmentData converted to its raw form and back is a
\* value with the same path and the same commitment; the conversions
\* succeed.
C12_PacketCommitmentDataRoundTrip ==
  (conv.kind = "PacketCommitmentData" /\ conv.done)
    => /\ conv.output.res = "Ok"
       /\ conv.output.value.path = conv.input.path
       /\ conv.output.value.commitment = conv.input.commitment

\* C19: the ModuleEvent of an AckStatusEvent has kind "nft_packet" and
\* exactly one attribute; its key is "success" for a Success status and
\* "error" for an Error status, and its value is the status's string form.
C19_AckStatusEvent ==
  (conv.kind = "AckStatusEvent" /\ conv.done)
    => LET status == conv.input.acknowledgement
       IN  /\ conv.output.kind = "nft_packet"
           /\ Len(conv.output.attributes) = 1
           /\ status.tag = "Success" => conv.output.attributes[1].key = "success"
           /\ status.tag = "Error" => conv.output.attributes[1].key = "error"
           /\ conv.output.attributes[1].value = to_string(status)

\* C19 witness: an Error status whose value reads "success" was converted:
\* the key is "error", the value "success".
C19_Witness ==
  /\ conv.kind = "AckStatusEvent" /\ conv.done
  /\ conv.input.acknowledgement = [tag |-> "Error", value |-> "success"]
  /\ conv.output.attributes = << [key |-> "error", value |-> "success"] >>

\* C20: the ModuleEvent of a ClassTraceEvent has kind "nft_class_trace";
\* its first attribute is "class"; a "trace_hash" attribute follows exactly
\* when trace_hash is present: two attributes with a hash, one without.
C20_ClassTraceEvent ==
  (conv.kind = "ClassTraceEvent" /\ conv.done)
    => LET attrs == conv.output.attributes
       IN  /\ conv.output.kind = "nft_class_trace"
           /\ Len(attrs) >= 1 /\ attrs[1].key = "class"
           /\ conv.input.trace_hash.some
                => /\ Len(attrs) = 2
                   /\ attrs[2] = [key |-> "trace_hash", value |-> conv.input.trace_hash.v]
           /\ ~conv.input.trace_hash.some => Len(attrs) = 1

\* C20 witness: an event without a hash was converted to one attribute.
C20_Witness ==
  /\ conv.kind = "ClassTraceEvent" /\ conv.done
  /\ ~conv.input.trace_hash.some
  /\ conv.output.attributes = << [key |-> "class", value |-> "nft-transfer/channel-0/kitty"] >>

====
